---------------------------- MODULE Spec2Model ----------------------------
(***************************************************************************)
(* A model of the ingestion pipeline of Python-RAG-console:                *)
(*   - DoclingPDFLoader._split_into_blocks   (SpecBlocks)                  *)
(*   - EmbeddingService.embed_chunks and the embed/index part of the loop  *)
(*     body of CLI.ingest_folder             (SpecEmbed, SpecEmbedLive)    *)
(*   - IndexingService as a component        (SpecStore)                   *)
(*   - loader.load (docling, fitz) and PDFParser.parse_pdf for one         *)
(*     document                              (SpecLoader)                  *)
(*   - CLI.ingest_folder / CLI.invalidate_documents  (Spec)                *)
(*   - PDFLoaderFactory as a component       (SpecFactory)                 *)
(*   - DoclingPDFLoader._fallback_split      (SpecFallback)                *)
(***************************************************************************)
EXTENDS Integers, Sequences, FiniteSets, TLC

VARIABLES
    \* ---- DoclingPDFLoader._split_into_blocks
    content,      \* the markdown text handed to _split_into_blocks
    lines,        \* content.splitlines()
    i,            \* scan position (1-based; Python's i + 1)
    text_accum,   \* pending plain lines
    blocks,       \* the blocks emitted so far
    bpc,          \* "idle" | "scan" | "done"
    \* ---- EmbeddingService.embed_chunks (one call, and what the loop body
    \*      of ingest_folder does with its outcome)
    echunks,      \* the chunk objects handed to embed_chunks (mutated in place)
    tasks,        \* one task per chunk: [state, result]
    done_order,   \* the tasks in the order their requests were answered
    req_failed,   \* the tasks whose request the provider failed
    embedded,     \* what embed_chunks returned
    epc,          \* "idle" | "start" | "gathering" | "returned" | "raised" | "done"
    \* ---- the search store and the counters of ingest_folder
    store,        \* the documents of the index: a set of [_id, _source]
    index_calls,  \* calls of index_chunks
    success_count,
    error_count,
    errors,
    \* ---- IndexingService driven as a component
    origin,       \* history: _id -> document_id of the chunk index_chunks wrote it from
    last_op,      \* the last call and how it ended
    prev_op,      \* the call before it
    \* ---- CLI.ingest_folder and CLI.invalidate_documents
    folder,       \* the PDF files of the folder: file -> bytes
    run,          \* ingest_folder calls so far
    cpc,          \* "prompt" | "checksummed" | "processing"
    file_checksums,
    existing_checksums,
    new_pdfs,
    skipped_pdfs,
    pos,          \* position of the loop in new_pdfs (1-based)
    lookup_failed,\* history: the existence check of this run raised
    parse_calls,  \* history: [file, raised] for each loop iteration of this run
    loaded,       \* history: file -> the first run in which the loader read pages of it
    unreadable,   \* history: the files whose bytes compute_checksum could not read
    outcome,      \* how the last ingest_folder call ended
    \* ---- loader.load and PDFParser.parse_pdf for one document
    ltype,        \* PDF_LOADER_TYPE: "fitz" | "docling"
    lchunks,      \* _process_content: the chunks emitted so far
    bpos,         \* _process_content: position of the loop in blocks (1-based)
    split_failed, \* history: header_splitter.split_text raised
    doc_data,     \* what loader.load returned: its pages
    ctor_calls,   \* history: the keywords of each ParagraphChunk(...) call of parse_pdf
    handed,       \* the chunks parse_pdf returned to the loop body
    lpc,          \* "idle" | "load" | "loaded" | "parsed" | "raised" | "handed" | "failed"
    \* ---- PDFLoaderFactory (class attributes) and its callers
    loader_instance,      \* _loader_instance: "none" or the class of the cached instance
    current_loader_type,  \* _current_loader_type: "none" or a loader type
    create_calls, \* history: [asked, raised, returned] for each create call
    \* ---- DoclingPDFLoader._fallback_split
    fb_text,      \* text
    max_length,
    paragraphs,   \* text.split('\n\n')
    fb_pos,       \* position of the loop in paragraphs (1-based)
    current_chunk,
    fb_chunks,    \* chunks
    fb_pc         \* "idle" | "loop" | "done"

blockVars == <<content, lines, i, text_accum, blocks, bpc>>
embedVars == <<echunks, tasks, done_order, req_failed, embedded, epc>>
reportVars == <<success_count, error_count, errors>>

serviceVars == <<origin, last_op, prev_op>>
cliVars == <<folder, run, cpc, file_checksums, existing_checksums, new_pdfs, skipped_pdfs,
             pos, lookup_failed, parse_calls, loaded, unreadable, outcome>>
parseVars == <<ltype, lchunks, bpos, split_failed, doc_data, ctor_calls, handed, lpc>>
factoryVars == <<loader_instance, current_loader_type, create_calls>>
fallbackVars == <<fb_text, max_length, paragraphs, fb_pos, current_chunk, fb_chunks, fb_pc>>
auxVars == <<factoryVars, fallbackVars>>
parseVarsButPc == <<ltype, lchunks, bpos, split_failed, doc_data, ctor_calls, handed>>

vars == <<blockVars, embedVars, store, index_calls, reportVars, serviceVars, cliVars, parseVars, auxVars>>

\* the parts of the state a specification does not use stay as they are here
BlocksIdle ==
    /\ content = <<>>
    /\ lines = <<>>
    /\ i = 1
    /\ text_accum = <<>>
    /\ blocks = <<>>
    /\ bpc = "idle"

EmbedIdle ==
    /\ echunks = <<>>
    /\ tasks = <<>>
    /\ done_order = <<>>
    /\ req_failed = {}
    /\ embedded = <<>>
    /\ epc = "idle"

ReportIdle ==
    /\ success_count = 0
    /\ error_count = 0
    /\ errors = <<>>

NoOp == [op |-> "none", ids |-> {}, sums |-> {}, raised |-> FALSE, result |-> {},
         attempted |-> 0, accepted |-> 0, indexed |-> 0, errs |-> 0]

ServiceIdle ==
    /\ origin = {}
    /\ last_op = NoOp
    /\ prev_op = NoOp

CliIdle ==
    /\ folder = <<>>
    /\ run = 0
    /\ cpc = "idle"
    /\ file_checksums = <<>>
    /\ existing_checksums = {}
    /\ new_pdfs = <<>>
    /\ skipped_pdfs = <<>>
    /\ pos = 1
    /\ lookup_failed = FALSE
    /\ parse_calls = <<>>
    /\ loaded = <<>>
    /\ unreadable = {}
    /\ outcome = "none"

FactoryIdle ==
    /\ loader_instance = "none"
    /\ current_loader_type = "none"
    /\ create_calls = <<>>

FallbackIdle ==
    /\ fb_text = <<>>
    /\ max_length = 0
    /\ paragraphs = <<>>
    /\ fb_pos = 1
    /\ current_chunk = <<>>
    /\ fb_chunks = <<>>
    /\ fb_pc = "idle"

ParseIdle ==
    /\ ltype = "none"
    /\ lchunks = <<>>
    /\ bpos = 1
    /\ split_failed = FALSE
    /\ doc_data = <<>>
    /\ ctor_calls = <<>>
    /\ handed = <<>>
    /\ lpc = "idle"

-----------------------------------------------------------------------------
(* Strings.  A string is a sequence of atoms: the line break NL, a blank   *)
(* SP, and three texts standing for the three shapes the two regular       *)
(* expressions of _split_into_blocks tell apart.                           *)

NL == "\n"
SP == " "
TitleText == "Table 1: Results"        \* matches ^Table\s+\d+[:\.]
RowText == "|A|B|"                     \* starts and ends with "|"
ProseText == "Table 1 shows trends."   \* matches neither

Atoms == {NL, SP, TitleText, RowText, ProseText}

MaxContentLen == 5

RECURSIVE SeqsUpTo(_, _)
SeqsUpTo(S, n) ==
    IF n = 0 THEN {<<>>}
    ELSE LET shorter == SeqsUpTo(S, n - 1)
         IN  shorter \cup {Append(s, a) : s \in {t \in shorter : Len(t) = n - 1}, a \in S}

Contents == SeqsUpTo(Atoms, MaxContentLen)

\* str.splitlines(): split at line breaks; a final line break opens no
\* further (empty) line, and the empty string has no lines.
RECURSIVE Splitlines(_)
Splitlines(s) ==
    IF s = <<>> THEN <<>>
    ELSE LET brk == {k \in 1..Len(s) : s[k] = NL}
         IN  IF brk = {} THEN <<s>>
             ELSE LET k == CHOOSE x \in brk : \A y \in brk : x <= y
                  IN  <<SubSeq(s, 1, k - 1)>> \o Splitlines(SubSeq(s, k + 1, Len(s)))

\* "\n".join(ls)
RECURSIVE Join(_)
Join(ls) ==
    IF ls = <<>> THEN <<>>
    ELSE IF Len(ls) = 1 THEN ls[1]
    ELSE ls[1] \o <<NL>> \o Join(Tail(ls))

\* str.strip(): drop leading and trailing blanks
RECURSIVE Strip(_)
Strip(s) ==
    IF s = <<>> THEN <<>>
    ELSE IF s[1] = SP THEN Strip(Tail(s))
    ELSE IF s[Len(s)] = SP THEN Strip(SubSeq(s, 1, Len(s) - 1))
    ELSE s

\* table_title_re.match(stripped): a prefix match
table_title_re(stripped) == stripped # <<>> /\ stripped[1] = TitleText

\* table_row_re.match(stripped): anchored at both ends
table_row_re(stripped) ==
    stripped # <<>> /\ stripped[1] = RowText /\ stripped[Len(stripped)] = RowText

-----------------------------------------------------------------------------
(* DoclingPDFLoader._split_into_blocks                                     *)

\* line 141: the lookahead of a title candidate at position k
MutLookaheadSkipsBlank(ls, k) ==
    \E j \in (k + 1)..Len(ls) :
        /\ table_row_re(Strip(ls[j]))
        /\ \A m \in (k + 1)..(j - 1) : Strip(ls[m]) = <<>>
LookaheadIsRow(ls, k) == k + 1 <= Len(ls) /\ table_row_re(Strip(ls[k + 1]))

\* lines 150-152: the position after the rows that follow position k - 1
MutOneRow(ls, k) == k + 1
RECURSIVE AfterRows(_, _)
AfterRows(ls, k) ==
    IF k <= Len(ls) /\ table_row_re(Strip(ls[k])) THEN AfterRows(ls, k + 1) ELSE k

Block(type, ls) == [type |-> type, content |-> Join(ls)]

\* lines 143-145
MutDropText(bs, acc) == bs
FlushText(bs, acc) == IF acc # <<>> THEN Append(bs, Block("text", acc)) ELSE bs

BlocksInit ==
    /\ content \in Contents
    /\ lines = Splitlines(content)
    /\ i = 1
    /\ text_accum = <<>>
    /\ blocks = <<>>
    /\ bpc = "scan"
    /\ EmbedIdle
    /\ ReportIdle
    /\ store = {}
    /\ index_calls = 0
    /\ ServiceIdle
    /\ CliIdle
    /\ ParseIdle
    /\ FactoryIdle
    /\ FallbackIdle

blockRest == <<embedVars, store, index_calls, reportVars, serviceVars, cliVars, parseVars, auxVars>>

\* one iteration of the while loop, lines 135-162
ScanLine ==
    /\ bpc = "scan"
    /\ i <= Len(lines)
    /\ IF table_title_re(Strip(lines[i])) /\ LookaheadIsRow(lines, i)
       THEN LET after == AfterRows(lines, i + 1)
            IN  /\ blocks' = Append(FlushText(blocks, text_accum),
                                    Block("table", SubSeq(lines, i, after - 1)))
                /\ text_accum' = <<>>
                /\ i' = after
       ELSE /\ text_accum' = Append(text_accum, lines[i])
            /\ i' = i + 1
            /\ UNCHANGED blocks
    /\ UNCHANGED <<content, lines, bpc>>
    /\ UNCHANGED blockRest

\* lines 164-167
FlushRemaining ==
    /\ bpc = "scan"
    /\ i > Len(lines)
    /\ blocks' = FlushText(blocks, text_accum)
    /\ text_accum' = <<>>
    /\ bpc' = "done"
    /\ UNCHANGED <<content, lines, i>>
    /\ UNCHANGED blockRest

BlocksNext == ScanLine \/ FlushRemaining

SpecBlocks == BlocksInit /\ [][BlocksNext]_vars

-----------------------------------------------------------------------------
(* Claims about _split_into_blocks                                         *)

IsTitleLine(l) == table_title_re(Strip(l))
IsRowLine(l) == table_row_re(Strip(l))

\* the positions where a title line is immediately followed by a row line
TableStarts(ls) ==
    {k \in 1..Len(ls) : IsTitleLine(ls[k]) /\ k + 1 <= Len(ls) /\ IsRowLine(ls[k + 1])}

\* the last of the row lines that immediately follow position k
RowRunEnd(ls, k) ==
    CHOOSE j \in k..Len(ls) :
        /\ \A m \in (k + 1)..j : IsRowLine(ls[m])
        /\ j = Len(ls) \/ ~IsRowLine(ls[j + 1])

\* the last position of the text that starts at k: up to the next table start
TextRunEnd(ls, k) ==
    CHOOSE e \in k..Len(ls) :
        /\ \A m \in k..e : m \notin TableStarts(ls)
        /\ e = Len(ls) \/ (e + 1) \in TableStarts(ls)

RECURSIVE ExpectedBlocks(_, _)
ExpectedBlocks(ls, k) ==
    IF k > Len(ls) THEN <<>>
    ELSE IF k \in TableStarts(ls)
         THEN <<[type |-> "table", content |-> Join(SubSeq(ls, k, RowRunEnd(ls, k)))]>>
              \o ExpectedBlocks(ls, RowRunEnd(ls, k) + 1)
         ELSE <<[type |-> "text", content |-> Join(SubSeq(ls, k, TextRunEnd(ls, k)))]>>
              \o ExpectedBlocks(ls, TextRunEnd(ls, k) + 1)

\* C9: in _split_into_blocks, when the line at the scan position matches the
\* table-title pattern and the next line matches the table-row pattern, the
\* iteration first flushes the pending text as a TEXT block, then emits one
\* TABLE block made of the title line and all immediately following row
\* lines, and scanning resumes at the first line after the last of those rows.
C9_TitleAndRowsFormOneTable ==
    [][ (/\ bpc = "scan"
         /\ i <= Len(lines)
         /\ IsTitleLine(lines[i])
         /\ i + 1 <= Len(lines)
         /\ IsRowLine(lines[i + 1]))
        => LET j == RowRunEnd(lines, i)
               flushed == IF text_accum # <<>>
                          THEN Append(blocks, [type |-> "text", content |-> Join(text_accum)])
                          ELSE blocks
           IN  /\ blocks' = Append(flushed,
                                   [type |-> "table", content |-> Join(SubSeq(lines, i, j))])
               /\ text_accum' = <<>>
               /\ i' = j + 1 ]_vars

\* a TABLE block has been emitted after a flushed TEXT block
C9_Witness ==
    \E b \in 2..Len(blocks) :
        /\ blocks[b].type = "table"
        /\ blocks[b - 1].type = "text"
        /\ i = RowRunEnd(lines, i - Len(Splitlines(blocks[b].content))) + 1

\* C10: for every input, every TABLE block is one title line followed by at
\* least one row line and nothing else, and the finished block sequence has a
\* TABLE block exactly at each title line whose immediate next line is a row
\* (with the rows immediately following it); every other line, a title not
\* followed at once by a row and a row not headed by such a title included,
\* lies in a TEXT block.
C10_TableBlocksAreTitlePlusRows ==
    /\ \A b \in 1..Len(blocks) :
          blocks[b].type = "table" =>
              LET ls == Splitlines(blocks[b].content)
              IN  /\ Len(ls) >= 2
                  /\ IsTitleLine(ls[1])
                  /\ \A m \in 2..Len(ls) : IsRowLine(ls[m]) /\ ~IsTitleLine(ls[m])
    /\ bpc = "done" => blocks = ExpectedBlocks(lines, 1)

\* a title line, a blank line, then a row line: finished, and nothing merged
C10_Witness ==
    /\ bpc = "done"
    /\ \E k \in 1..(Len(lines) - 2) :
          /\ IsTitleLine(lines[k])
          /\ Strip(lines[k + 1]) = <<>>
          /\ IsRowLine(lines[k + 2])
    /\ \A b \in 1..Len(blocks) : blocks[b].type = "text"

BlockContents(bs) == [b \in 1..Len(bs) |-> bs[b].content]

\* C11: the contents of the blocks of _split_into_blocks, joined by a line
\* break in order, are the lines of the input joined by a line break: no line
\* is dropped, duplicated or reordered (at every moment of the scan, for the
\* lines scanned so far, the pending text counted as a block), and the empty
\* input has no block.
C11_BlocksReproduceInput ==
    /\ LET pending == IF text_accum = <<>> THEN <<>> ELSE <<Join(text_accum)>>
       IN  Join(BlockContents(blocks) \o pending) = Join(SubSeq(lines, 1, i - 1))
    /\ bpc = "done" =>
           /\ Join(BlockContents(blocks)) = Join(lines)
           /\ lines = <<>> => blocks = <<>>

\* finished: text and then a table, with an empty line among the lines
C11_Witness ==
    /\ bpc = "done"
    /\ Len(blocks) >= 2
    /\ \E b \in 2..Len(blocks) : blocks[b].type = "table" /\ blocks[b - 1].type = "text"
    /\ \E k \in 1..Len(lines) : lines[k] = <<>>

-----------------------------------------------------------------------------
(* Chunk objects.  A Python object is a record whose domain is the set of  *)
(* its attributes: reading an attribute outside the domain raises          *)
(* AttributeError, constructing a dataclass with a keyword outside its     *)
(* fields raises TypeError.                                                *)

EMBEDDING_MODEL == "text-embedding-ada-002"

\* models/chunk.py: the fields ParagraphChunk declares
ParagraphChunkFields ==
    {"document_id", "checksum", "is_chart", "page_number",
     "paragraph_or_chart_index", "text_content", "embedding_model", "embedding"}

NoEmbedding == <<>>                     \* embedding = None

\* the embedding capability: the vector the provider answers for a text
Embed(text) == <<"vector of", text>>

\* the attributes index_chunks reads of each chunk
IndexReadAttrs ==
    {"title", "documentChecksum", "is_chart", "page_number",
     "paragraph_or_chart_index", "text_content", "embedding_model", "embedding",
     "pdf_loader"}

\* the document being processed by the loop body, and another one
DocName == "a.pdf"
DocChecksum == "md5-x"
OtherChecksum == "md5-y"

Texts == {"alpha", "beta"}
MaxChunks == 3

\* a ParagraphChunk built from its declared fields
DeclaredChunk(name, sum, k, text) ==
    [document_id |-> name, checksum |-> sum, is_chart |-> FALSE, page_number |-> 1,
     paragraph_or_chart_index |-> k, text_content |-> text,
     embedding_model |-> EMBEDDING_MODEL, embedding |-> NoEmbedding]

\* an object carrying every attribute index_chunks reads
IndexableChunk(name, sum, k, text) ==
    [document_id |-> name, title |-> "", documentChecksum |-> sum, is_chart |-> FALSE,
     page_number |-> 1, paragraph_or_chart_index |-> k, text_content |-> text,
     embedding_model |-> EMBEDDING_MODEL, embedding |-> NoEmbedding,
     pdf_loader |-> "docling"]

ChunkListsOver(name, sum, texts) ==
    UNION {
      {[k \in 1..n |-> DeclaredChunk(name, sum, k, t[k])] : t \in [1..n -> texts]}
      \cup {[k \in 1..n |-> IndexableChunk(name, sum, k, t[k])] : t \in [1..n -> texts]}
      : n \in 0..MaxChunks }

ChunkLists(name, sum) == ChunkListsOver(name, sum, Texts)

-----------------------------------------------------------------------------
(* IndexingService                                                         *)

\* lines 57-67: the document index_chunks writes for a chunk
BulkDoc(chunk) ==
    [title |-> chunk.title,
     documentChecksum |-> chunk.documentChecksum,
     is_chart |-> chunk.is_chart,
     page_number |-> chunk.page_number,
     paragraph_or_chart_index |-> chunk.paragraph_or_chart_index,
     text_content |-> chunk.text_content,
     embedding_model |-> chunk.embedding_model,
     embedding |-> chunk.embedding,
     pdf_loader |-> chunk.pdf_loader]

\* lines 51-68 raise AttributeError when a chunk lacks an attribute they read
AttributeError(chunks) ==
    \E k \in 1..Len(chunks) : ~(IndexReadAttrs \subseteq DOMAIN chunks[k])

MaxId(st) ==
    IF st = {} THEN 0 ELSE CHOOSE m \in {r._id : r \in st} : \A r \in st : r._id <= m

\* client.bulk: the store gives each accepted document an _id of its own
BulkApply(st, chunks, accepted) ==
    st \cup {[_id |-> MaxId(st) + Cardinality({a \in accepted : a <= k}),
              _source |-> BulkDoc(chunks[k])] : k \in accepted}

\* index_chunks(chunks): every outcome the store allows.  raised: the call
\* raised; indexed/errs: the counts it returned (lines 80-83).
IndexChunksOutcomes(st, chunks) ==
    IF AttributeError(chunks)
    THEN {[raised |-> TRUE, store |-> st, indexed |-> 0, errs |-> 0]}
    ELSE IF chunks = <<>>
    THEN {[raised |-> FALSE, store |-> st, indexed |-> 0, errs |-> 0]}
    ELSE {[raised |-> r,
           store |-> BulkApply(st, chunks, acc),
           indexed |-> IF r THEN 0 ELSE Len(chunks),
           errs |-> IF r THEN 0 ELSE Len(chunks) - Cardinality(acc)]
          : acc \in SUBSET (1..Len(chunks)), r \in BOOLEAN}

\* the documents of the store that carry a checksum
DocsOf(st, sum) == {r \in st : r._source.documentChecksum = sum}

-----------------------------------------------------------------------------
(* EmbeddingService.embed_chunks                                           *)

Pending == [state |-> "pending", result |-> 0]

\* _get_embedding_async, lines 23-24: the task returns its own chunk
OnResponse(k) == [state |-> "done", result |-> k]

\* _get_embedding_async, lines 25-27: log and re-raise
MutSwallowError(k) == [state |-> "done", result |-> k]
OnRequestError(k) == [state |-> "failed", result |-> 0]

\* asyncio.gather, line 32: the results in the order of the awaitables
MutGatherByCompletion(ts, order) == [k \in 1..Len(ts) |-> ts[order[k]].result]
Gather(ts, order) == [k \in 1..Len(ts) |-> ts[k].result]

\* asyncio.gather, line 32: it returns when every awaitable has returned
AllAnswered(ts) == \A k \in 1..Len(ts) : ts[k].state = "done"

EmbedInit ==
    /\ echunks \in ChunkLists(DocName, DocChecksum)
    /\ tasks = <<>>
    /\ done_order = <<>>
    /\ req_failed = {}
    /\ embedded = <<>>
    /\ epc = "start"
    /\ store \in {{}, {[_id |-> 1,
                        _source |-> BulkDoc(IndexableChunk("b.pdf", OtherChecksum, 1, "alpha"))]}}
    /\ index_calls = 0
    /\ ReportIdle
    /\ BlocksIdle
    /\ ServiceIdle
    /\ CliIdle
    /\ ParseIdle
    /\ FactoryIdle
    /\ FallbackIdle

\* embed_chunks, lines 36-47 and 31: nothing to do, or one task per chunk
EmbedChunksStart ==
    /\ epc = "start"
    /\ IF echunks = <<>>
       THEN /\ embedded' = echunks
            /\ epc' = "returned"
            /\ UNCHANGED tasks
       ELSE /\ tasks' = [k \in 1..Len(echunks) |-> Pending]
            /\ epc' = "gathering"
            /\ UNCHANGED embedded
    /\ UNCHANGED <<echunks, done_order, req_failed, store, index_calls, reportVars, blockVars, serviceVars, cliVars, parseVars, auxVars>>

\* lines 19-24: the provider answers the request of task k
RequestSucceeds(k) ==
    /\ epc = "gathering"
    /\ tasks[k].state = "pending"
    /\ echunks' = [echunks EXCEPT ![k].embedding = Embed(echunks[k].text_content)]
    /\ tasks' = [tasks EXCEPT ![k] = OnResponse(k)]
    /\ done_order' = Append(done_order, k)
    /\ UNCHANGED <<req_failed, embedded, epc, store, index_calls, reportVars, blockVars, serviceVars, cliVars, parseVars, auxVars>>

\* lines 19, 25-27: the request of task k fails
RequestFails(k) ==
    /\ epc = "gathering"
    /\ tasks[k].state = "pending"
    /\ req_failed' = req_failed \cup {k}
    /\ tasks' = [tasks EXCEPT ![k] = OnRequestError(k)]
    /\ done_order' = Append(done_order, k)
    /\ UNCHANGED <<echunks, embedded, epc, store, index_calls, reportVars, blockVars, serviceVars, cliVars, parseVars, auxVars>>

\* lines 32, 50-64: every task returned; embed_chunks returns gather's list
GatherReturns ==
    /\ epc = "gathering"
    /\ AllAnswered(tasks)
    /\ embedded' = [k \in 1..Len(tasks) |-> echunks[Gather(tasks, done_order)[k]]]
    /\ epc' = "returned"
    /\ UNCHANGED <<echunks, tasks, done_order, req_failed, store, index_calls,
                   reportVars, blockVars, serviceVars, cliVars, parseVars, auxVars>>

\* lines 32, 51-52, 65-68: a task raised; gather raises at once, the loop is
\* closed with the other requests unanswered, embed_chunks re-raises
GatherRaises ==
    /\ epc = "gathering"
    /\ \E k \in 1..Len(tasks) : tasks[k].state = "failed"
    /\ epc' = "raised"
    /\ UNCHANGED <<echunks, tasks, done_order, req_failed, embedded, store, index_calls,
                   reportVars, blockVars, serviceVars, cliVars, parseVars, auxVars>>

\* ingest_folder, lines 117-125, after embed_chunks returned
IndexAfterEmbed ==
    /\ epc = "returned"
    /\ index_calls' = index_calls + 1
    /\ \E o \in IndexChunksOutcomes(store, embedded) :
          /\ store' = o.store
          /\ IF o.raised
             THEN /\ error_count' = error_count + 1
                  /\ errors' = Append(errors, [name |-> DocName, stage |-> "index"])
                  /\ UNCHANGED success_count
             ELSE /\ success_count' = success_count + 1
                  /\ UNCHANGED <<error_count, errors>>
    /\ epc' = "done"
    /\ UNCHANGED <<echunks, tasks, done_order, req_failed, embedded, blockVars, serviceVars, cliVars, parseVars, auxVars>>

\* ingest_folder, lines 121-125, after embed_chunks raised
ExceptAfterEmbed ==
    /\ epc = "raised"
    /\ error_count' = error_count + 1
    /\ errors' = Append(errors, [name |-> DocName, stage |-> "embed"])
    /\ epc' = "done"
    /\ UNCHANGED <<echunks, tasks, done_order, req_failed, embedded, store, index_calls,
                   success_count, blockVars, serviceVars, cliVars, parseVars, auxVars>>

EmbedNext ==
    \/ EmbedChunksStart
    \/ \E k \in 1..Len(tasks) : RequestSucceeds(k)
    \/ \E k \in 1..Len(tasks) : RequestFails(k)
    \/ GatherReturns
    \/ GatherRaises
    \/ IndexAfterEmbed
    \/ ExceptAfterEmbed

SpecEmbed == EmbedInit /\ [][EmbedNext]_vars

\* The steps that are the program's own.  Whether and when the provider
\* answers a request (RequestSucceeds, RequestFails) is not the program's to
\* decide: the code sets no timeout on the request (lines 19-22) and none
\* around gather (lines 32, 50).
EmbedProgramStep ==
    \/ EmbedChunksStart
    \/ GatherReturns
    \/ GatherRaises
    \/ IndexAfterEmbed
    \/ ExceptAfterEmbed

SpecEmbedLive == SpecEmbed /\ WF_vars(EmbedProgramStep)

C2_EmbeddingAtomicity ==
    req_failed # {} =>
        /\ index_calls = 0
        /\ DocsOf(store, DocChecksum) = {}
        /\ epc = "done" => (success_count = 0 /\ error_count = 1)

\* one request failed after another had been answered, for chunks that
\* index_chunks could have written, and the loop body is over
C2_Witness ==
    /\ epc = "done"
    /\ req_failed # {}
    /\ \E k \in 1..Len(tasks) : tasks[k].state = "done"
    /\ ~AttributeError(echunks)

\* C7: whatever the order in which the requests are answered, the list
\* embed_chunks returns has the input chunks in input order, each with the
\* embedding of its own text_content.
C7_OrderPreserved ==
    epc = "returned" =>
        /\ Len(embedded) = Len(echunks)
        /\ \A k \in 1..Len(embedded) :
              /\ embedded[k].paragraph_or_chart_index = k
              /\ embedded[k].text_content = echunks[k].text_content
              /\ embedded[k].embedding = Embed(echunks[k].text_content)

\* embed_chunks returned although the requests were answered out of order,
\* for chunks of different texts
C7_Witness ==
    /\ epc = "returned"
    /\ Len(embedded) >= 2
    /\ done_order[1] # 1
    /\ embedded[1].text_content # embedded[2].text_content

\* C29: every chunk embed_chunks returns, and so every chunk handed to
\* index_chunks, has its embedding, and every record written for the
\* document has one, whatever the order of the answers.
C29_EmbeddingPresentWhenIndexed ==
    /\ epc \in {"returned", "done"} /\ req_failed = {} =>
           /\ Len(embedded) = Len(echunks)
           /\ \A k \in 1..Len(embedded) : embedded[k].embedding # NoEmbedding
    /\ index_calls > 0 => \A k \in 1..Len(embedded) : embedded[k].embedding # NoEmbedding
    /\ \A r \in DocsOf(store, DocChecksum) : r._source.embedding # NoEmbedding

\* records of a document of several chunks were written, the first request
\* not being the first answered
C29_Witness ==
    /\ epc = "done"
    /\ index_calls = 1
    /\ Len(embedded) >= 2
    /\ done_order[1] # 1
    /\ Cardinality(DocsOf(store, DocChecksum)) >= 2

\* C15: when the loop body is over and the store did not take every record
\* index_chunks sent for the document, the document is not counted as a
\* success: it is counted and listed as an error.
C15_RejectionsAreReported ==
    (/\ epc = "done"
     /\ index_calls = 1
     /\ Cardinality(DocsOf(store, DocChecksum)) < Len(embedded))
    => (success_count = 0 /\ error_count = 1 /\ errors # <<>>)

\* the embedding requests that have been sent and not answered
InFlight == {k \in 1..Len(tasks) : tasks[k].state = "pending"}

\* a cap below the number of chunks a document can have
ConcurrencyCap == MaxChunks - 1

\* C16: at no moment are more embedding requests in flight than the cap.
C16_FanOutBounded == Cardinality(InFlight) <= ConcurrencyCap

-----------------------------------------------------------------------------
(* IndexingService as a component: index_chunks, delete_by_document_ids    *)
(* and check_existing_checksums called in any order.                       *)

\* a terms query: the documents that have the field with one of the values
TermsMatch(r, fld, values) == fld \in DOMAIN r._source /\ r._source[fld] \in values

\* check_existing_checksums, lines 119-138: the bucket keys of the
\* documents whose documentChecksum is one of the checksums
CheckExisting(st, sums) ==
    {r._source.documentChecksum : r \in {x \in st : TermsMatch(x, "documentChecksum", sums)}}

\* check_existing_checksums, lines 139-141: the search raised
MutAssumeAllExist(sums) == sums
CheckExistingOnError(sums) == {}

\* delete_by_document_ids, lines 146-156: delete_by_query, terms on document_id
DeleteByDocumentIds(st, ids) == {r \in st : ~TermsMatch(r, "document_id", ids)}

Names == {"a.pdf", "b.pdf"}
Sums == {DocChecksum, OtherChecksum}
MaxStoreDocs == 2

StoreInit ==
    /\ store = {}
    /\ origin = {}
    /\ last_op = NoOp
    /\ prev_op = NoOp
    /\ index_calls = 0
    /\ ReportIdle
    /\ BlocksIdle
    /\ EmbedIdle
    /\ CliIdle
    /\ ParseIdle
    /\ FactoryIdle
    /\ FallbackIdle

svcRest == <<blockVars, embedVars, reportVars, cliVars, parseVars, auxVars>>

\* index_chunks(chunks) for the chunks of one document
SvcIndexChunks ==
    \E name \in Names, sum \in Sums :
      \E chunks \in ChunkListsOver(name, sum, {"alpha"}) :
        /\ Cardinality(store) + Len(chunks) <= MaxStoreDocs
        /\ \E o \in IndexChunksOutcomes(store, chunks) :
              /\ store' = o.store
              /\ origin' = origin \cup
                     {[_id |-> r._id, document_id |-> name, checksum |-> sum]
                        : r \in o.store \ store}
              /\ last_op' = [op |-> "index", ids |-> {name}, sums |-> {sum},
                             raised |-> o.raised, result |-> {},
                             attempted |-> Len(chunks),
                             accepted |-> Cardinality(o.store \ store),
                             indexed |-> o.indexed, errs |-> o.errs]
        /\ prev_op' = last_op
        /\ UNCHANGED <<index_calls, svcRest>>

\* delete_by_document_ids(ids); sums: the checksums the documents named
\* were written with
SvcDelete ==
    \E ids \in SUBSET Names \ {{}}, raised \in BOOLEAN :
        /\ store' = IF raised THEN store ELSE DeleteByDocumentIds(store, ids)
        /\ origin' = {o \in origin : o._id \in {r._id : r \in store'}}
        /\ last_op' = [op |-> "delete", ids |-> ids,
                       sums |-> {o.checksum : o \in {x \in origin : x.document_id \in ids}},
                       raised |-> raised, result |-> {},
                       attempted |-> 0, accepted |-> 0, indexed |-> 0, errs |-> 0]
        /\ prev_op' = last_op
        /\ UNCHANGED <<index_calls, svcRest>>

\* check_existing_checksums(sums)
SvcCheck ==
    \E sums \in SUBSET Sums \ {{}}, raised \in BOOLEAN :
        /\ last_op' = [op |-> "check", ids |-> {}, sums |-> sums, raised |-> raised,
                       result |-> IF raised THEN CheckExistingOnError(sums)
                                  ELSE CheckExisting(store, sums),
                       attempted |-> 0, accepted |-> 0, indexed |-> 0, errs |-> 0]
        /\ prev_op' = last_op
        /\ UNCHANGED <<store, origin, index_calls, svcRest>>

StoreNext == SvcIndexChunks \/ SvcDelete \/ SvcCheck

SpecStore == StoreInit /\ [][StoreNext]_vars

\* the documents of the store written from chunks of the documents named
WrittenFor(st, org, ids) ==
    {r \in st : \E o \in org : o._id = r._id /\ o.document_id \in ids}

\* C5: right after delete_by_document_ids(ids) returned, for documents that
\* index_chunks wrote, check_existing_checksums does not return the checksum
\* of a deleted document (unless a document that was not deleted carries the
\* same checksum).
C5_DeleteThenCheck ==
    (/\ prev_op.op = "delete" /\ ~prev_op.raised
     /\ last_op.op = "check" /\ ~last_op.raised)
    => \A sum \in last_op.sums \cap prev_op.sums :
          (\A o \in origin : o.checksum = sum => o.document_id \in prev_op.ids)
          => sum \notin last_op.result

\* C6: delete_by_document_ids(ids) removes every document of the store that
\* index_chunks wrote from a chunk whose document_id is in ids, and leaves
\* every other document unchanged.
C6_DeleteRemovesAllOfIds ==
    [][ (last_op'.op = "delete" /\ ~last_op'.raised)
        => store' = store \ WrittenFor(store, origin, last_op'.ids) ]_vars

\* C26: when index_chunks returned with only part of a document's records
\* accepted, so that the store holds fewer records of the checksum than the
\* document has chunks, the existence check that follows does not report the
\* checksum as existing (the caller would skip the document).
C26_PartlyWrittenIsNotSkipped ==
    (/\ prev_op.op = "index" /\ ~prev_op.raised
     /\ prev_op.accepted < prev_op.attempted
     /\ last_op.op = "check" /\ ~last_op.raised)
    => \A sum \in prev_op.sums :
          Cardinality(DocsOf(store, sum)) < prev_op.attempted => sum \notin last_op.result

\* C14: when index_chunks returns, the indexed count of its result is the
\* number of records the store accepted and the error count is the number it
\* rejected.
C14_IndexedCountsAccepted ==
    (last_op.op = "index" /\ ~last_op.raised) =>
        /\ last_op.indexed = last_op.accepted
        /\ last_op.errs = last_op.attempted - last_op.accepted

-----------------------------------------------------------------------------
(* PDFParser.parse_pdf and the loop body of CLI.ingest_folder              *)

MaxPages == 1

\* what loader.load does with a file: it raises, or returns some pages
LoadOutcomes ==
    {[raised |-> TRUE, pages |-> 0]} \cup {[raised |-> FALSE, pages |-> n] : n \in 0..MaxPages}

\* pdf_parser.py lines 56-65: the keywords of the text chunk of a page
ParseKwargs(name, sum, page, loader_type) ==
    [document_id |-> name, documentChecksum |-> sum, is_chart |-> FALSE,
     page_number |-> page.number, paragraph_or_chart_index |-> <<"p", page.number>>,
     text_content |-> page.text,
     embedding_model |-> EMBEDDING_MODEL, pdf_loader |-> loader_type]

\* pdf_parser.py lines 70-79: the keywords of the chunk of image idx of a page
ChartKwargs(name, sum, page, idx, loader_type) ==
    [document_id |-> name, documentChecksum |-> sum, is_chart |-> TRUE,
     page_number |-> page.number, paragraph_or_chart_index |-> <<"chart-", idx>>,
     text_content |-> <<"Chart or figure found on page", page.number>>,
     embedding_model |-> EMBEDDING_MODEL, pdf_loader |-> loader_type]

\* lines 54-80: the constructor calls parse_pdf makes for the pages, in order
RECURSIVE AllKwargs(_, _, _, _)
AllKwargs(name, sum, pages, loader_type) ==
    IF pages = <<>> THEN <<>>
    ELSE LET page == Head(pages)
         IN  <<ParseKwargs(name, sum, page, loader_type)>>
             \o [n \in 1..page.images |-> ChartKwargs(name, sum, page, n - 1, loader_type)]
             \o AllKwargs(name, sum, Tail(pages), loader_type)

\* the dataclass constructor: a keyword that is no field, or a field without
\* default that is not given, raises TypeError
TypeError(kw) ==
    \/ ~(DOMAIN kw \subseteq ParagraphChunkFields)
    \/ ~((ParagraphChunkFields \ {"embedding"}) \subseteq DOMAIN kw)

NewParagraphChunk(kw) ==
    [a \in ParagraphChunkFields |-> IF a \in DOMAIN kw THEN kw[a] ELSE NoEmbedding]

\* parse_pdf, lines 48-82, for the pages the loader returned: the constructor
\* calls made (up to the first that raises) and the chunks returned
ParsePages(name, sum, pages, loader_type) ==
    LET all == AllKwargs(name, sum, pages, loader_type)
        bad == {k \in 1..Len(all) : TypeError(all[k])}
    IN  IF bad = {}
        THEN [raised |-> FALSE, calls |-> all,
              chunks |-> [k \in 1..Len(all) |-> NewParagraphChunk(all[k])]]
        ELSE LET first == CHOOSE k \in bad : \A j \in bad : k <= j
             IN  [raised |-> TRUE, calls |-> SubSeq(all, 1, first), chunks |-> <<>>]

\* parse_pdf, lines 43-82
ParsePdf(name, sum, load) ==
    IF load.raised
    THEN [raised |-> TRUE, stage |-> "load", chunks |-> <<>>]
    ELSE LET pages == [n \in 1..load.pages |-> [number |-> n, text |-> "alpha", images |-> 0]]
             r == ParsePages(name, sum, pages, "docling")
         IN  [raised |-> r.raised, stage |-> IF r.raised THEN "chunk" ELSE "",
              chunks |-> r.chunks]

\* embed_chunks as one step: it returns the chunks, each with its embedding,
\* or raises (SpecEmbed has the requests one by one)
EmbedChunksOutcomes(chunks) ==
    IF chunks = <<>>
    THEN {[raised |-> FALSE, chunks |-> chunks]}
    ELSE {[raised |-> TRUE, chunks |-> <<>>],
          [raised |-> FALSE,
           chunks |-> [k \in 1..Len(chunks) |->
                         [chunks[k] EXCEPT !.embedding = Embed(chunks[k].text_content)]]]}

\* ingest_folder, lines 106-125: every way one iteration can end
LoopBodyOutcomes(st, name, sum) ==
    UNION {
      LET p == ParsePdf(name, sum, load)
          read == ~load.raised /\ load.pages > 0
      IN  IF p.raised
          THEN {[ok |-> FALSE, stage |-> p.stage, store |-> st, indexed |-> FALSE,
                 loaded |-> read]}
          ELSE UNION {
                 IF e.raised
                 THEN {[ok |-> FALSE, stage |-> "embed", store |-> st, indexed |-> FALSE,
                        loaded |-> read]}
                 ELSE {[ok |-> ~o.raised, stage |-> IF o.raised THEN "index" ELSE "",
                        store |-> o.store, indexed |-> TRUE, loaded |-> read]
                       : o \in IndexChunksOutcomes(st, e.chunks)}
                 : e \in EmbedChunksOutcomes(p.chunks) }
      : load \in LoadOutcomes }

-----------------------------------------------------------------------------
(* One document through loader.load and parse_pdf: DoclingPDFLoader.load   *)
(* (_split_into_blocks, then _process_content) or FitzPDFLoader.load, then *)
(* PDFParser.parse_pdf and what the loop body of ingest_folder does with   *)
(* its outcome.  Lengths count atoms, so chunk_size is scaled down.        *)

ChunkSize == 2       \* chunk_size=2000 (lines 79 and 84), in atoms
MaxImages == 1       \* images of a page (fitz)

\* MarkdownHeaderTextSplitter.split_text on a text without header lines (the
\* atoms have none): lines stripped, blank lines dropped, the lines of a
\* paragraph joined by a line break and paragraphs by two blanks and a line
\* break; one Document, or none when nothing is left
RECURSIVE NormaliseLines(_, _, _)
NormaliseLines(ls, out, gap) ==
    IF ls = <<>> THEN out
    ELSE LET l == Strip(Head(ls))
         IN  IF l = <<>> THEN NormaliseLines(Tail(ls), out, out # <<>>)
             ELSE IF out = <<>> THEN NormaliseLines(Tail(ls), l, FALSE)
             ELSE NormaliseLines(Tail(ls),
                                 out \o (IF gap THEN <<SP, SP, NL>> ELSE <<NL>>) \o l, FALSE)

HeaderSplit(text) ==
    LET page_content == NormaliseLines(Splitlines(text), <<>>, FALSE)
    IN  IF page_content = <<>> THEN <<>> ELSE <<page_content>>

StripWs(s) ==
    LET keep == {k \in 1..Len(s) : s[k] \notin {SP, NL}}
    IN  IF keep = {} THEN <<>>
        ELSE SubSeq(s, CHOOSE k \in keep : \A j \in keep : k <= j,
                       CHOOSE k \in keep : \A j \in keep : j <= k)

\* MarkdownTextSplitter(chunk_size, chunk_overlap).split_text: pieces of at
\* most chunk_size, stripped, empty pieces dropped
RECURSIVE TextSplit(_)
TextSplit(text) ==
    IF Len(text) <= ChunkSize
    THEN IF StripWs(text) = <<>> THEN <<>> ELSE <<StripWs(text)>>
    ELSE LET piece == StripWs(SubSeq(text, 1, ChunkSize))
             rest == TextSplit(SubSeq(text, ChunkSize + 1, Len(text)))
         IN  IF piece = <<>> THEN rest ELSE <<piece>> \o rest

\* lines 54-55
MutNoTitle(block_content) == <<>>
TableTitle(block_content) ==
    LET ls == Splitlines(block_content)
    IN  IF ls # <<>> /\ table_title_re(Strip(ls[1])) THEN Strip(ls[1]) ELSE <<>>

RECURSIVE ContentLen(_)
ContentLen(chunks) ==
    IF chunks = <<>> THEN 0 ELSE Len(Head(chunks).content) + ContentLen(Tail(chunks))

\* lines 56-63
TableChunk(chunks, block_content) ==
    [type |-> "table", content |-> block_content, table_title |-> TableTitle(block_content),
     offset |-> ContentLen(chunks), is_chart |-> TRUE, chunk_index |-> Len(chunks)]

\* lines 87-95 and 99-107
TextChunk(chunks, text) ==
    [type |-> "text", content |-> text, offset |-> ContentLen(chunks),
     chunk_index |-> Len(chunks)]

RECURSIVE AppendTexts(_, _)
AppendTexts(chunks, texts) ==
    IF texts = <<>> THEN chunks
    ELSE AppendTexts(Append(chunks, TextChunk(chunks, Head(texts))), Tail(texts))

\* lines 83-109: the chunks of the Documents of one text block
RECURSIVE AppendDocs(_, _)
AppendDocs(chunks, docs) ==
    IF docs = <<>> THEN chunks
    ELSE LET doc == Head(docs)
         IN  AppendDocs(IF Len(doc) > ChunkSize
                        THEN AppendTexts(chunks, TextSplit(doc))
                        ELSE AppendTexts(chunks, <<doc>>),
                        Tail(docs))

FitzTexts == {<<>>, <<ProseText>>}

\* FitzPDFLoader.load: one page dict per page of the document
FitzPages ==
    UNION {[1..n -> {[text |-> t, images |-> m] : t \in FitzTexts, m \in 0..MaxImages}]
             : n \in 0..MaxPages}

LoaderInit ==
    /\ ltype \in {"fitz", "docling"}
    /\ IF ltype = "docling"
       THEN /\ content \in Contents         \* what convert_to_markdown returned
            /\ bpc = "scan"
       ELSE /\ content = <<>>
            /\ bpc = "idle"
    /\ lines = Splitlines(content)
    /\ i = 1
    /\ text_accum = <<>>
    /\ blocks = <<>>
    /\ lchunks = <<>>
    /\ bpos = 1
    /\ split_failed = FALSE
    /\ doc_data = <<>>
    /\ ctor_calls = <<>>
    /\ handed = <<>>
    /\ lpc = "load"
    /\ EmbedIdle
    /\ ReportIdle
    /\ store = {}
    /\ index_calls = 0
    /\ ServiceIdle
    /\ CliIdle
    /\ FactoryIdle
    /\ FallbackIdle

loaderRest == <<blockVars, embedVars, store, index_calls, reportVars, serviceVars, cliVars, auxVars>>

\* _process_content, lines 49-109: one iteration of the loop over the blocks
ProcessBlock ==
    /\ lpc = "load"
    /\ ltype = "docling"
    /\ bpc = "done"
    /\ bpos <= Len(blocks)
    /\ LET block == blocks[bpos]
       IN  IF block.type = "table"
           THEN /\ lchunks' = Append(lchunks, TableChunk(lchunks, block.content))
                /\ bpos' = bpos + 1
                /\ UNCHANGED <<split_failed, lpc>>
           ELSE \E fails \in BOOLEAN :
                  IF fails                   \* line 75 raises, and so does load
                  THEN /\ split_failed' = TRUE
                       /\ lpc' = "raised"
                       /\ UNCHANGED <<lchunks, bpos>>
                  ELSE /\ lchunks' = AppendDocs(lchunks, HeaderSplit(block.content))
                       /\ bpos' = bpos + 1
                       /\ UNCHANGED <<split_failed, lpc>>
    /\ UNCHANGED <<ltype, doc_data, ctor_calls, handed>>
    /\ UNCHANGED loaderRest

\* DoclingPDFLoader.load, lines 27-34: one "page" with the whole markdown
DoclingLoadReturns ==
    /\ lpc = "load"
    /\ ltype = "docling"
    /\ bpc = "done"
    /\ bpos > Len(blocks)
    /\ doc_data' = <<[number |-> 1, text |-> content, chunks |-> lchunks, images |-> 0]>>
    /\ lpc' = "loaded"
    /\ UNCHANGED <<ltype, lchunks, bpos, split_failed, ctor_calls, handed>>
    /\ UNCHANGED loaderRest

\* FitzPDFLoader.load, lines 9-40
FitzLoad ==
    /\ lpc = "load"
    /\ ltype = "fitz"
    /\ \E pages \in FitzPages :
          doc_data' = [n \in 1..Len(pages) |->
                         [number |-> n, text |-> pages[n].text, images |-> pages[n].images]]
    /\ lpc' = "loaded"
    /\ UNCHANGED <<ltype, lchunks, bpos, split_failed, ctor_calls, handed>>
    /\ UNCHANGED loaderRest

\* parse_pdf, lines 48-82, and ingest_folder, lines 108-114: the chunks go
\* to embed_chunks, or the exception goes to the except clause
ParsePdfCall ==
    /\ lpc = "loaded"
    /\ LET r == ParsePages(DocName, DocChecksum, doc_data, ltype)
       IN  /\ ctor_calls' = r.calls
           /\ handed' = r.chunks
           /\ lpc' = IF r.raised THEN "raised" ELSE "handed"
    /\ UNCHANGED <<ltype, lchunks, bpos, split_failed, doc_data>>
    /\ UNCHANGED loaderRest

\* ingest_folder, lines 121-125: the document is counted as failed
LoopExcept ==
    /\ lpc = "raised"
    /\ lpc' = "failed"
    /\ error_count' = error_count + 1
    /\ errors' = Append(errors, [name |-> DocName,
                                 stage |-> IF split_failed THEN "load" ELSE "chunk"])
    /\ UNCHANGED success_count
    /\ UNCHANGED parseVarsButPc
    /\ UNCHANGED <<blockVars, embedVars, store, index_calls, serviceVars, cliVars, auxVars>>

LoaderNext ==
    \/ ScanLine
    \/ FlushRemaining
    \/ ProcessBlock
    \/ DoclingLoadReturns
    \/ FitzLoad
    \/ ParsePdfCall
    \/ LoopExcept

SpecLoader == LoaderInit /\ [][LoaderNext]_vars

-----------------------------------------------------------------------------
(* Claims about loader.load and parse_pdf                                  *)

ParseOver == lpc \in {"handed", "failed"}

AtTableBlock ==
    /\ lpc = "load"
    /\ ltype = "docling"
    /\ bpc = "done"
    /\ bpos <= Len(blocks)
    /\ blocks[bpos].type = "table"

FirstLine(text) == Splitlines(text)[1]

C18_TableTitleIsFirstLine ==
    [][ AtTableBlock
        => /\ Len(lchunks') = Len(lchunks) + 1
           /\ SubSeq(lchunks', 1, Len(lchunks)) = lchunks
           /\ lchunks'[Len(lchunks')].type = "table"
           /\ lchunks'[Len(lchunks')].content = blocks[bpos].content
           /\ lchunks'[Len(lchunks')].table_title
                = (IF IsTitleLine(FirstLine(blocks[bpos].content))
                   THEN FirstLine(blocks[bpos].content) ELSE <<>>)
           /\ bpos' = bpos + 1 ]_vars

\* C18, amended: for a TABLE block, _process_content appends exactly one
\* chunk, of type table, with the content of the block verbatim whatever its
\* length, and with table_title equal to the first line with its leading and
\* trailing blanks removed when that matches the table-title pattern, and
\* empty otherwise.
C18_TableBlockIsOneChunk ==
    [][ AtTableBlock
        => /\ Len(lchunks') = Len(lchunks) + 1
           /\ SubSeq(lchunks', 1, Len(lchunks)) = lchunks
           /\ lchunks'[Len(lchunks')].type = "table"
           /\ lchunks'[Len(lchunks')].content = blocks[bpos].content
           /\ lchunks'[Len(lchunks')].table_title
                = (IF IsTitleLine(FirstLine(blocks[bpos].content))
                   THEN Strip(FirstLine(blocks[bpos].content)) ELSE <<>>)
           /\ bpos' = bpos + 1 ]_vars

\* a table longer than chunk_size, its title line indented, became one chunk
C18_Witness ==
    \E k \in 1..Len(lchunks) :
        /\ lchunks[k].type = "table"
        /\ lchunks[k].content = blocks[bpos - 1].content
        /\ Len(lchunks[k].content) > ChunkSize
        /\ lchunks[k].table_title # <<>>
        /\ lchunks[k].table_title # FirstLine(lchunks[k].content)

C22_HandedChunksAreChunkerOutput ==
    (ltype = "docling" /\ ParseOver /\ ~split_failed) =>
        [k \in 1..Len(handed) |-> handed[k].text_content]
          = [k \in 1..Len(lchunks) |-> lchunks[k].content]

\* C24: parse_pdf calls ParagraphChunk only with keywords the record
\* declares, so a document the loader read does not fail in parse_pdf: its
\* chunks are handed on.
C24_PipelineDoesNotRaise ==
    /\ \A k \in 1..Len(ctor_calls) : ~TypeError(ctor_calls[k])
    /\ ~split_failed => lpc \notin {"raised", "failed"}

\* C20: when header_splitter.split_text raised for a text block, load does
\* not raise: _process_content goes on (with the fallback splitter) and the
\* document is not failed.
C20_FallbackOnSplitFailure ==
    split_failed => lpc \notin {"raised", "failed"}

-----------------------------------------------------------------------------
(* CLI.ingest_folder and CLI.invalidate_documents                          *)

MaxFiles == 2
MaxRuns == 2

FileIds == 1..MaxFiles
FileName(f) == <<"a.pdf", "b.pdf", "c.pdf", "d.pdf">>[f]
Bytes == {"x", "y"}

\* compute_checksum: the digest of a file's bytes
Md5(b) == IF b = "x" THEN DocChecksum ELSE OtherChecksum

RECURSIVE Ascending(_)
Ascending(S) ==
    IF S = {} THEN <<>>
    ELSE LET m == CHOOSE x \in S : \A y \in S : x <= y
         IN  <<m>> \o Ascending(S \ {m})

\* folder.glob("*.pdf")
PdfFiles(fld) == Ascending(DOMAIN fld)

\* lines 77-80
MutNoSkip(files, sums, existing) == files
NewPdfs(files, sums, existing) ==
    LET IsNew(f) == sums[f] \notin existing IN SelectSeq(files, IsNew)

\* lines 83-86
SkippedPdfs(files, sums, existing) ==
    LET IsOld(f) == sums[f] \in existing IN SelectSeq(files, IsOld)

\* lines 121-125: count the error and go on with the next file
MutBreak(p, n) == n + 1
AfterError(p, n) == p + 1

\* an index that earlier sessions filled: one chunk for each checksum of S
PreStore(S) ==
    {[_id |-> IF sum = DocChecksum THEN 1 ELSE 2,
      _source |-> BulkDoc(IndexableChunk("old.pdf", sum, 1, "alpha"))] : sum \in S}

Init ==
    /\ folder \in UNION {[1..n -> Bytes] : n \in 0..MaxFiles}
    /\ store \in {PreStore(S) : S \in SUBSET Sums}
    /\ run = 0
    /\ cpc = "prompt"
    /\ file_checksums = <<>>
    /\ existing_checksums = {}
    /\ new_pdfs = <<>>
    /\ skipped_pdfs = <<>>
    /\ pos = 1
    /\ lookup_failed = FALSE
    /\ parse_calls = <<>>
    /\ loaded = [f \in DOMAIN folder |-> 0]
    /\ unreadable = {}
    /\ outcome = "none"
    /\ index_calls = 0
    /\ ReportIdle
    /\ ServiceIdle
    /\ BlocksIdle
    /\ EmbedIdle
    /\ ParseIdle
    /\ FactoryIdle
    /\ FallbackIdle

cliRest == <<blockVars, embedVars, origin, prev_op, parseVars, auxVars>>

\* ingest_folder, lines 56-71: the PDF files of the folder and their checksums
IngestBegin ==
    /\ cpc = "prompt"
    /\ run < MaxRuns
    /\ run' = run + 1
    /\ existing_checksums' = {}
    /\ new_pdfs' = <<>>
    /\ skipped_pdfs' = <<>>
    /\ pos' = 1
    /\ lookup_failed' = FALSE
    /\ parse_calls' = <<>>
    /\ IF DOMAIN folder = {}
       THEN /\ outcome' = "no_pdfs"
            /\ unreadable' = {}
            /\ UNCHANGED <<cpc, file_checksums>>
       ELSE \E bad \in SUBSET DOMAIN folder :
              /\ unreadable' = bad
              /\ IF bad = {}
                 THEN /\ file_checksums' = [f \in DOMAIN folder |-> Md5(folder[f])]
                      /\ cpc' = "checksummed"
                      /\ outcome' = "running"
                 ELSE /\ outcome' = "fatal"       \* open() raised: lines 138-139
                      /\ UNCHANGED <<cpc, file_checksums>>
    /\ UNCHANGED <<folder, store, loaded, index_calls, last_op, reportVars, cliRest>>

\* ingest_folder, lines 73-103: one existence check, then new and skipped
IngestDedup ==
    /\ cpc = "checksummed"
    /\ \E raised \in BOOLEAN :
         LET sums == {file_checksums[f] : f \in DOMAIN file_checksums}
             found == IF raised THEN CheckExistingOnError(sums)
                      ELSE CheckExisting(store, sums)
             new == NewPdfs(PdfFiles(folder), file_checksums, found)
         IN  /\ lookup_failed' = raised
             /\ existing_checksums' = found
             /\ new_pdfs' = new
             /\ skipped_pdfs' = SkippedPdfs(PdfFiles(folder), file_checksums, found)
             /\ IF new = <<>>
                THEN cpc' = "prompt" /\ outcome' = "nothing_new"
                ELSE cpc' = "processing" /\ UNCHANGED outcome
    /\ success_count' = 0
    /\ error_count' = 0
    /\ errors' = <<>>
    /\ UNCHANGED <<folder, store, run, file_checksums, pos, parse_calls, loaded, unreadable,
                   index_calls, last_op, cliRest>>

\* ingest_folder, lines 105-125: one iteration of the loop
ProcessDocument ==
    /\ cpc = "processing"
    /\ pos <= Len(new_pdfs)
    /\ LET f == new_pdfs[pos]
       IN  \E o \in LoopBodyOutcomes(store, FileName(f), file_checksums[f]) :
             /\ store' = o.store
             /\ index_calls' = IF o.indexed THEN index_calls + 1 ELSE index_calls
             /\ parse_calls' = Append(parse_calls, [file |-> f, raised |-> ~o.ok])
             /\ loaded' = IF o.loaded /\ loaded[f] = 0 THEN [loaded EXCEPT ![f] = run]
                          ELSE loaded
             /\ IF o.ok
                THEN /\ success_count' = success_count + 1
                     /\ pos' = pos + 1
                     /\ UNCHANGED <<error_count, errors>>
                ELSE /\ error_count' = error_count + 1
                     /\ errors' = Append(errors, [name |-> FileName(f), stage |-> o.stage])
                     /\ pos' = AfterError(pos, Len(new_pdfs))
                     /\ UNCHANGED success_count
    /\ UNCHANGED <<folder, run, cpc, file_checksums, existing_checksums, new_pdfs,
                   skipped_pdfs, lookup_failed, unreadable, outcome, last_op, cliRest>>

\* ingest_folder, lines 127-136: the final status report
IngestReport ==
    /\ cpc = "processing"
    /\ pos > Len(new_pdfs)
    /\ outcome' = IF success_count = Len(new_pdfs) THEN "all_ok" ELSE "with_errors"
    /\ cpc' = "prompt"
    /\ UNCHANGED <<folder, store, run, file_checksums, existing_checksums, new_pdfs,
                   skipped_pdfs, pos, lookup_failed, parse_calls, loaded, unreadable, index_calls,
                   last_op, reportVars, cliRest>>

\* invalidate_documents, lines 172-218: a file of the folder or the folder
InvalidateDocuments ==
    /\ cpc = "prompt"
    /\ \E targets \in {{f} : f \in DOMAIN folder} \cup {DOMAIN folder},
          confirm \in BOOLEAN, raised \in BOOLEAN :
         LET ids == {FileName(f) : f \in targets}
         IN  IF ids = {} \/ ~confirm \/ raised
             THEN UNCHANGED store
             ELSE store' = DeleteByDocumentIds(store, ids)
    /\ UNCHANGED <<last_op, folder, run, cpc, file_checksums, existing_checksums, new_pdfs,
                   skipped_pdfs, pos, lookup_failed, parse_calls, loaded, unreadable, outcome,
                   index_calls, reportVars, cliRest>>

Next ==
    \/ IngestBegin
    \/ IngestDedup
    \/ ProcessDocument
    \/ IngestReport
    \/ InvalidateDocuments

Spec == Init /\ [][Next]_vars

-----------------------------------------------------------------------------
(* Claims about ingest_folder                                              *)

Reported == outcome \in {"all_ok", "with_errors"}
InLoop == cpc = "processing" \/ Reported

FilesOf(calls) == [k \in 1..Len(calls) |-> calls[k].file]
Failures(calls) == LET Raised(c) == c.raised IN SelectSeq(calls, Raised)

\* C1: a file that an earlier run of ingest_folder ingested (the loader read
\* its pages) is found by the existence check of a later run over the same
\* folder and is skipped there: it is not among the new files of that run.
C1_SecondIngestSkipped ==
    (cpc = "processing" /\ ~lookup_failed)
    => \A k \in 1..Len(new_pdfs) :
          ~(loaded[new_pdfs[k]] # 0 /\ loaded[new_pdfs[k]] < run)

\* C3: the loop handles the new files one after the other whatever raised
\* before: each iteration that raised left one error entry naming its file,
\* and the report is reached only when every new file has had its iteration.
C3_FailuresDoNotHaltSiblings ==
    InLoop =>
        /\ FilesOf(parse_calls) = SubSeq(new_pdfs, 1, Len(parse_calls))
        /\ [k \in 1..Len(errors) |-> errors[k].name]
             = [k \in 1..Len(Failures(parse_calls)) |-> FileName(Failures(parse_calls)[k].file)]
        /\ error_count = Len(errors)
        /\ Reported => Len(parse_calls) = Len(new_pdfs)

\* a file failed and the file after it was processed all the same
C3_Witness ==
    /\ Reported
    /\ \E k \in 1..(Len(parse_calls) - 1) : parse_calls[k].raised /\ ~parse_calls[k + 1].raised

\* C4: when the existence check raises, check_existing_checksums answers the
\* empty set and ingest_folder goes on with every file of the folder as new:
\* none is skipped and the run is not aborted.
C4_LookupFailureTreatsAllAsNew ==
    lookup_failed =>
        /\ existing_checksums = {}
        /\ new_pdfs = PdfFiles(folder)
        /\ skipped_pdfs = <<>>
        /\ InLoop

\* the check raised although the store holds the checksum of a file of the
\* folder, and the run went through to its report
C4_Witness ==
    /\ lookup_failed
    /\ Reported
    /\ \E f \in DOMAIN folder : DocsOf(store, file_checksums[f]) # {}
    /\ Len(parse_calls) = Len(PdfFiles(folder))

\* C8: no file is parsed before every file of the folder has its checksum
\* and the existence check has been made, and a file whose checksum is in the
\* set the check returned is skipped: no iteration of the loop handles it.
C8_DedupBeforeAnyWork ==
    /\ (parse_calls # <<>> \/ cpc = "processing") =>
           /\ DOMAIN file_checksums = DOMAIN folder
           /\ \A f \in DOMAIN folder : file_checksums[f] = Md5(folder[f])
           /\ cpc # "checksummed"
    /\ InLoop =>
           \A f \in DOMAIN folder :
               file_checksums[f] \in existing_checksums =>
                   /\ \E k \in 1..Len(skipped_pdfs) : skipped_pdfs[k] = f
                   /\ \A k \in 1..Len(new_pdfs) : new_pdfs[k] # f
                   /\ \A k \in 1..Len(parse_calls) : parse_calls[k].file # f

\* one file of the folder was skipped, another one went through the loop
C8_Witness ==
    /\ Reported
    /\ skipped_pdfs # <<>>
    /\ parse_calls # <<>>
    /\ ~lookup_failed

\* C25: in the loop and at the report, every iteration so far counted its
\* document once, as a success or as an error with one error entry; at the
\* report every new document has had exactly one iteration, so success_count
\* + error_count is the number of new documents.
C25_EachNewDocumentCountedOnce ==
    /\ InLoop =>
           /\ success_count + error_count = Len(parse_calls)
           /\ error_count = Len(Failures(parse_calls))
           /\ Len(errors) = error_count
    /\ Reported =>
           /\ success_count + error_count = Len(new_pdfs)
           /\ \A k \in 1..Len(new_pdfs) :
                 Cardinality({j \in 1..Len(parse_calls) : parse_calls[j].file = new_pdfs[k]}) = 1

\* a report after one document succeeded and another failed
C25_Witness ==
    /\ Reported
    /\ success_count >= 1
    /\ error_count >= 1

\* C27: within one run, no two iterations of the loop handle files with the
\* same checksum: of files with identical bytes at most one is processed.
C27_ChecksumIsKeyWithinBatch ==
    InLoop =>
        \A j, k \in 1..Len(parse_calls) :
            j # k => file_checksums[parse_calls[j].file] # file_checksums[parse_calls[k].file]

\* C17: when compute_checksum cannot read some files of the folder, the run
\* still goes through to its report: every other file is checksummed and
\* then skipped or handled by the loop, and each unreadable file is one
\* failed entry of the report.
C17_ChecksumFailureIsPerDocument ==
    (unreadable # {} /\ cpc = "prompt") =>
        /\ Reported
        /\ \A f \in DOMAIN folder \ unreadable :
              /\ f \in DOMAIN file_checksums
              /\ \/ \E k \in 1..Len(skipped_pdfs) : skipped_pdfs[k] = f
                 \/ \E k \in 1..Len(parse_calls) : parse_calls[k].file = f
        /\ \A f \in unreadable :
              Cardinality({k \in 1..Len(errors) : errors[k].name = FileName(f)}) = 1

-----------------------------------------------------------------------------
(* PDFLoaderFactory: create and get_loader_type called in any order        *)

LoaderTypes == {"fitz", "docling"}          \* PDFLoaderType
AskedTypes == LoaderTypes \cup {"pdfminer"} \* and a type the enum does not have
MaxCreates == 4

\* create(loader_type), lines 25-46; import_ok: the lazy import succeeds.
\* The attributes after the call, whether it raised, and what it returned.
Create(inst, typ, loader_type, import_ok) ==
    IF inst # "none"                                   \* lines 25-26
    THEN [instance |-> inst, type |-> typ, raised |-> FALSE, returned |-> inst]
    ELSE IF loader_type \notin LoaderTypes             \* lines 29, 43-44
    THEN [instance |-> inst, type |-> typ, raised |-> TRUE, returned |-> "none"]
    ELSE IF ~import_ok                                 \* lines 30, 45-46
    THEN [instance |-> inst, type |-> loader_type, raised |-> TRUE, returned |-> "none"]
    ELSE [instance |-> loader_type, type |-> loader_type, raised |-> FALSE,
          returned |-> loader_type]                    \* lines 30-41

\* get_loader_type(), lines 51-53
GetLoaderType(typ) == [raised |-> typ = "none", value |-> typ]

FactoryInit ==
    /\ FactoryIdle
    /\ BlocksIdle
    /\ EmbedIdle
    /\ ReportIdle
    /\ store = {}
    /\ index_calls = 0
    /\ ServiceIdle
    /\ CliIdle
    /\ ParseIdle
    /\ FallbackIdle

factoryRest == <<blockVars, embedVars, store, index_calls, reportVars, serviceVars, cliVars,
                 parseVars, fallbackVars>>

FactoryCreate ==
    /\ Len(create_calls) < MaxCreates
    /\ \E loader_type \in AskedTypes, import_ok \in BOOLEAN :
         LET r == Create(loader_instance, current_loader_type, loader_type, import_ok)
         IN  /\ loader_instance' = r.instance
             /\ current_loader_type' = r.type
             /\ create_calls' = Append(create_calls,
                                       [asked |-> loader_type, raised |-> r.raised,
                                        returned |-> r.returned])
    /\ UNCHANGED factoryRest

FactoryNext == FactoryCreate

SpecFactory == FactoryInit /\ [][FactoryNext]_vars

\* C21: after any sequence of create calls, every create(t) that returned
\* gave a loader of type t, and when there is an instance get_loader_type
\* names its type.
C21_LoaderIdNamesTheInstance ==
    /\ \A k \in 1..Len(create_calls) :
          ~create_calls[k].raised => create_calls[k].returned = create_calls[k].asked
    /\ loader_instance # "none" =>
          /\ ~GetLoaderType(current_loader_type).raised
          /\ GetLoaderType(current_loader_type).value = loader_instance

-----------------------------------------------------------------------------
(* DoclingPDFLoader._fallback_split(text, max_length).  Lengths count      *)
(* atoms.                                                                  *)

FallbackAtoms == {NL, SP, ProseText}
MaxTextLen == 4
MaxLength == 3

\* str.split('\n\n'): cut at each pair of line breaks, from the left; a text
\* without one (the empty text included) is one paragraph
RECURSIVE SplitParagraphs(_)
SplitParagraphs(s) ==
    LET cuts == {k \in 1..(Len(s) - 1) : s[k] = NL /\ s[k + 1] = NL}
    IN  IF cuts = {} THEN <<s>>
        ELSE LET k == CHOOSE x \in cuts : \A y \in cuts : x <= y
             IN  <<SubSeq(s, 1, k - 1)>> \o SplitParagraphs(SubSeq(s, k + 2, Len(s)))

FallbackInit ==
    /\ fb_text \in SeqsUpTo(FallbackAtoms, MaxTextLen)
    /\ max_length \in 1..MaxLength
    /\ paragraphs = SplitParagraphs(fb_text)
    /\ fb_pos = 1
    /\ current_chunk = <<>>
    /\ fb_chunks = <<>>
    /\ fb_pc = "loop"
    /\ BlocksIdle
    /\ EmbedIdle
    /\ ReportIdle
    /\ store = {}
    /\ index_calls = 0
    /\ ServiceIdle
    /\ CliIdle
    /\ ParseIdle
    /\ FactoryIdle

fallbackRest == <<blockVars, embedVars, store, index_calls, reportVars, serviceVars, cliVars,
                  parseVars, factoryVars>>

\* lines 173-179: one iteration of the loop over the paragraphs
FallbackParagraph ==
    /\ fb_pc = "loop"
    /\ fb_pos <= Len(paragraphs)
    /\ LET paragraph == paragraphs[fb_pos]
       IN  IF Len(current_chunk) + Len(paragraph) < max_length
           THEN /\ current_chunk' = current_chunk \o paragraph \o <<NL, NL>>
                /\ UNCHANGED fb_chunks
           ELSE /\ fb_chunks' = IF current_chunk # <<>>
                                THEN Append(fb_chunks, StripWs(current_chunk))
                                ELSE fb_chunks
                /\ current_chunk' = paragraph \o <<NL, NL>>
    /\ fb_pos' = fb_pos + 1
    /\ UNCHANGED <<fb_text, max_length, paragraphs, fb_pc>>
    /\ UNCHANGED fallbackRest

\* lines 180-182
FallbackReturn ==
    /\ fb_pc = "loop"
    /\ fb_pos > Len(paragraphs)
    /\ fb_chunks' = IF current_chunk # <<>>
                    THEN Append(fb_chunks, StripWs(current_chunk))
                    ELSE fb_chunks
    /\ fb_pc' = "done"
    /\ UNCHANGED <<fb_text, max_length, paragraphs, fb_pos, current_chunk>>
    /\ UNCHANGED fallbackRest

FallbackNext == FallbackParagraph \/ FallbackReturn

SpecFallback == FallbackInit /\ [][FallbackNext]_vars

RECURSIVE ParagraphsOf(_)
ParagraphsOf(chunks) ==
    IF chunks = <<>> THEN <<>>
    ELSE SplitParagraphs(Head(chunks)) \o ParagraphsOf(Tail(chunks))

\* the paragraphs with something in them, each without the white space
\* around it
Stripped(ps) ==
    LET NonBlank(q) == StripWs(q) # <<>>
        kept == SelectSeq(ps, NonBlank)
    IN  [k \in 1..Len(kept) |-> StripWs(kept[k])]

\* C28: the chunks _fallback_split returns are each shorter than max_length,
\* none is empty, and their paragraphs are the paragraphs of the text, each
\* once and in the order of the text.
C28_FallbackChunksBoundedAndComplete ==
    fb_pc = "done" =>
        /\ \A k \in 1..Len(fb_chunks) : Len(fb_chunks[k]) < max_length
        /\ \A k \in 1..Len(fb_chunks) : fb_chunks[k] # <<>>
        /\ Stripped(ParagraphsOf(fb_chunks)) = Stripped(paragraphs)

=============================================================================
